---- MODULE Spec2Model ----
(***************************************************************************)
(* CardtoImagePlugin: the conversion orchestrator (convert), option        *)
(* merging and validation, the render engine adapter (_renderHTMLToImage), *)
(* the resource inliner (_inlineResources) and the file output step        *)
(* (_writeToFile) of src/src/plugin.ts.                                    *)
(*                                                                         *)
(* Spec is one convert call on any input; SpecConc is NumCalls calls in    *)
(* flight at once; SpecPair is two calls whose options differ in           *)
(* backgroundColor only; SpecValidate is a direct call of validateOptions; *)
(* SpecSize is one rendering call for each scale and viewport size;        *)
(* SpecInline applies _inlineResources to a document and to its own        *)
(* output, for every document of at most MaxTokens tokens.                 *)
(*                                                                         *)
(* A JavaScript value that may be undefined is a sequence of length at     *)
(* most one: << >> is undefined, <<v>> is the value v.  An options object  *)
(* is a function from the names of its own properties to such values, so   *)
(* that "absent" (name not in DOMAIN) and "present with the value          *)
(* undefined" (name mapped to << >>) are different objects, as they are    *)
(* for the object spread of _mergeOptions.                                 *)
(*                                                                         *)
(* scale is a float in the source; here it is counted in tenths            *)
(* (ScaleUnit = 10 is the scale 1.0).                                      *)
(***************************************************************************)
EXTENDS Integers, Sequences, FiniteSets, TLC

\* ------------------------------------------------------------------ bounds
NumCalls == 2       \* convert calls in flight in the concurrent specification
MaxFaults == 2      \* failures the environment injects into one single call
ConcFaults == 1     \* failures the environment injects, concurrent specification
MaxTokens == 2      \* tokens of a document handed to the inliner on its own

Procs == 1..NumCalls

\* --------------------------------------------------------- JS-value helpers
Undefined == << >>
Some(v) == <<v>>
IsDefined(o) == o # Undefined
\* property access: a missing property reads as undefined
Get(obj, f) == IF f \in DOMAIN obj THEN obj[f] ELSE Undefined
\* truthiness of a string-valued property (undefined and "" are falsy)
TruthyStr(o) == IsDefined(o) /\ o[1] # ""
\* truthiness of a boolean-valued property
TruthyBool(o) == IsDefined(o) /\ o[1]
\* a ?? b
Coalesce(o, d) == IF IsDefined(o) THEN o[1] ELSE d

ScaleUnit == 10

\* ------------------------------------------------------------- error codes
ImageErrorCode ==
  [ PUPPETEER_NOT_INSTALLED |-> "CONV-IMG-001",
    BROWSER_LAUNCH_FAILED   |-> "CONV-IMG-002",
    PAGE_LOAD_TIMEOUT       |-> "CONV-IMG-003",
    SCREENSHOT_FAILED       |-> "CONV-IMG-004",
    FILE_WRITE_FAILED       |-> "CONV-IMG-005",
    INVALID_FORMAT          |-> "CONV-IMG-006",
    INVALID_QUALITY         |-> "CONV-IMG-007",
    INVALID_DIMENSIONS      |-> "CONV-IMG-008" ]

HTML_FALLBACK_CODE == "CONV-HTML-002"

\* ---------------------------------------------------------------- options
DEFAULT_OPTIONS ==
  [ format          |-> Some("png"),
    quality         |-> Some(90),
    scale           |-> Some(1 * ScaleUnit),
    backgroundColor |-> Some("#ffffff"),
    transparent     |-> Some(FALSE),
    waitTime        |-> Some(1000) ]

\* { ...DEFAULT_OPTIONS, ...options }: every own property of options wins,
\* whatever its value
_mergeOptions(options) ==
  [ f \in (DOMAIN DEFAULT_OPTIONS) \cup (DOMAIN options) |->
      IF f \in DOMAIN options THEN options[f] ELSE DEFAULT_OPTIONS[f] ]

\* as Join, keeping the first element only
JoinFirst(errors, sep) == IF errors = << >> THEN << >> ELSE errors[1]

\* Array.prototype.join: the elements with the separator between them; a
\* message is the sequence of its text pieces
RECURSIVE Join(_, _)
Join(errors, sep) ==
  IF errors = << >> THEN << >>
  ELSE IF Len(errors) = 1 THEN errors[1]
  ELSE errors[1] \o <<sep>> \o Join(Tail(errors), sep)

FormatErrors(options) ==
  LET format == Get(options, "format") IN
  IF TruthyStr(format) /\ format[1] \notin {"png", "jpg", "jpeg"}
  THEN << <<"unsupported format: ", format[1]>> >> ELSE << >>

QualityErrors(options) ==
  LET quality == Get(options, "quality") IN
  IF IsDefined(quality) /\ (quality[1] < 1 \/ quality[1] > 100)
  THEN << <<"quality must be 1-100, got: ", ToString(quality[1])>> >> ELSE << >>

\* as ScaleErrors, with the lower end of the range closed
ScaleErrorsZeroAllowed(options) ==
  LET scale == Get(options, "scale") IN
  IF IsDefined(scale) /\ (scale[1] < 0 \/ scale[1] > 4 * ScaleUnit)
  THEN << <<"scale must be 0-4, got tenths: ", ToString(scale[1])>> >> ELSE << >>

ScaleErrors(options) ==
  LET scale == Get(options, "scale") IN
  IF IsDefined(scale) /\ (scale[1] <= 0 \/ scale[1] > 4 * ScaleUnit)
  THEN << <<"scale must be 0-4, got tenths: ", ToString(scale[1])>> >> ELSE << >>

WidthErrors(options) ==
  LET width == Get(options, "width") IN
  IF IsDefined(width) /\ width[1] <= 0
  THEN << <<"width must be positive, got: ", ToString(width[1])>> >> ELSE << >>

HeightErrors(options) ==
  LET height == Get(options, "height") IN
  IF IsDefined(height) /\ height[1] <= 0
  THEN << <<"height must be positive, got: ", ToString(height[1])>> >> ELSE << >>

WaitTimeErrors(options) ==
  LET waitTime == Get(options, "waitTime") IN
  IF IsDefined(waitTime) /\ waitTime[1] < 0
  THEN << <<"waitTime must not be negative, got: ", ToString(waitTime[1])>> >> ELSE << >>

QualityWarnings(options) ==
  IF IsDefined(Get(options, "quality")) /\ Get(options, "format") = Some("png")
  THEN << <<"PNG ignores quality">> >> ELSE << >>

TransparentWarnings(options) ==
  IF TruthyBool(Get(options, "transparent")) /\ Get(options, "format") # Some("png")
  THEN << <<"transparent only applies to PNG">> >> ELSE << >>

\* as validateOptions, with a warning counted against valid like an error
validateOptionsStrict(options) ==
  LET errors == FormatErrors(options) \o QualityErrors(options) \o ScaleErrors(options)
                \o WidthErrors(options) \o HeightErrors(options) \o WaitTimeErrors(options)
      warnings == QualityWarnings(options) \o TransparentWarnings(options)
  IN [ valid    |-> Len(errors) = 0 /\ Len(warnings) = 0,
       errors   |-> IF Len(errors) > 0 THEN Some(errors) ELSE Undefined,
       warnings |-> IF Len(warnings) > 0 THEN Some(warnings) ELSE Undefined ]

validateOptions(options) ==
  LET errors == FormatErrors(options) \o QualityErrors(options) \o ScaleErrors(options)
                \o WidthErrors(options) \o HeightErrors(options) \o WaitTimeErrors(options)
      warnings == QualityWarnings(options) \o TransparentWarnings(options)
  IN [ valid    |-> Len(errors) = 0,
       errors   |-> IF Len(errors) > 0 THEN Some(errors) ELSE Undefined,
       warnings |-> IF Len(warnings) > 0 THEN Some(warnings) ELSE Undefined ]

\* _createErrorResult: only success, taskId, error and duration are set; the
\* other properties of the result read as undefined
_createErrorResult(tid, code, message, elapsed, cause) ==
  [ success    |-> FALSE,
    taskId     |-> tid,
    outputPath |-> Undefined,
    data       |-> Undefined,
    format     |-> Undefined,
    width      |-> Undefined,
    height     |-> Undefined,
    error      |-> Some([code |-> code, message |-> message, cause |-> cause]),
    duration   |-> Some(elapsed) ]

\* ----------------------------------------------- external HTML generator
\* What CardtoHTMLPlugin.convert yields for a source.  A file content is
\* text (a string) or bytes (a Uint8Array).
\* A text is the sequence of its tokens: plain text, a link tag with its
\* href, or a src/href attribute inside some other tag.  A path or
\* attribute value is the sequence of its pieces, with "/" and the
\* extension as pieces of their own, so that "ends with" and "last path
\* segment" are computed on it.  The empty string is the empty sequence.
Text(t) == [kind |-> "text", attr |-> "", value |-> << >>, text |-> t]
Link(href) == [kind |-> "link", attr |-> "href", value |-> href, text |-> ""]
Attr(name, value) == [kind |-> "attr", attr |-> name, value |-> value, text |-> ""]

TextFile(t) == [type |-> "string", text |-> t, bytes |-> << >>]
BytesFile(b) == [type |-> "bytes", text |-> << >>, bytes |-> b]

INDEX_HTML == <<"index", ".html">>
THEME_CSS == <<"theme", ".css">>
EXTRA_CSS == <<"css", "/", "extra", ".css">>
LOGO_PNG == <<"img", "/", "logo", ".png">>

INDEX_TEXT ==
  << Text("<html><head>"), Link(THEME_CSS), Link(EXTRA_CSS), Text("</head><body><img "),
     Attr("src", LOGO_PNG), Text(">card</body></html>") >>
SMALL_INDEX_TEXT == << Text("<html><body>c</body></html>") >>
THEME_TEXT == << Text("body{}") >>
EXTRA_TEXT == << Text("p{}") >>
LOGO_BYTES == <<137, 80, 78, 71>>

Error(m) == [isError |-> TRUE, message |-> <<m>>]
NonError(m) == [isError |-> FALSE, message |-> <<m>>]

HtmlOk(fs) == [kind |-> "result", success |-> TRUE, data |-> Some([files |-> fs]), error |-> Undefined]

Sources ==
  { "card", "small-card", "card-no-index", "card-empty-index", "card-binary-index",
    "bad-card", "bad-card-no-error", "no-data", "crash", "crash-value" }

HtmlPluginConvert(source) ==
  CASE source = "card" ->
         HtmlOk([f \in {INDEX_HTML, THEME_CSS, EXTRA_CSS, LOGO_PNG} |->
                   CASE f = INDEX_HTML -> TextFile(INDEX_TEXT)
                     [] f = THEME_CSS -> TextFile(THEME_TEXT)
                     [] f = EXTRA_CSS -> TextFile(EXTRA_TEXT)
                     [] OTHER -> BytesFile(LOGO_BYTES)])
    [] source = "small-card" ->
         HtmlOk([f \in {INDEX_HTML} |-> TextFile(SMALL_INDEX_TEXT)])
    [] source = "card-no-index" ->
         HtmlOk([f \in {THEME_CSS} |-> TextFile(THEME_TEXT)])
    [] source = "card-empty-index" ->
         HtmlOk([f \in {INDEX_HTML} |-> TextFile(<< >>)])
    [] source = "card-binary-index" ->
         HtmlOk([f \in {INDEX_HTML} |-> BytesFile(LOGO_BYTES)])
    [] source = "bad-card" ->
         [kind |-> "result", success |-> FALSE, data |-> Undefined,
          error |-> Some([code |-> "CONV-HTML-001", message |-> <<"cannot parse card">>,
                          cause |-> Undefined])]
    [] source = "bad-card-no-error" ->
         [kind |-> "result", success |-> FALSE, data |-> Undefined, error |-> Undefined]
    [] source = "no-data" ->
         [kind |-> "result", success |-> TRUE, data |-> Undefined, error |-> Undefined]
    [] source = "crash" ->
         [kind |-> "throw", error |-> Error("html plugin crashed")]
    [] OTHER ->
         [kind |-> "throw", error |-> NonError("rejected with a value")]

\* ----------------------------------------------------- resource inlining
\* String.prototype.endsWith, and the match of [^"']*name at the end of a
\* quoted attribute value
EndsWith(value, suffix) ==
  /\ Len(value) >= Len(suffix)
  /\ SubSeq(value, Len(value) - Len(suffix) + 1, Len(value)) = suffix

\* filePath.split('/').pop()
Basename(filePath) ==
  LET slashes == { i \in 1..Len(filePath) : filePath[i] = "/" }
  IN IF slashes = {} THEN filePath
     ELSE SubSeq(filePath, (CHOOSE i \in slashes : \A j \in slashes : j <= i) + 1,
                 Len(filePath))

ImageExtensions == {".png", ".jpg", ".jpeg", ".gif", ".webp", ".svg", ".ico", ".bmp"}

_isImagePath(path) == path # << >> /\ path[Len(path)] \in ImageExtensions

_getMimeType(path) ==
  LET ext == IF path = << >> THEN "" ELSE path[Len(path)]
  IN CASE ext = ".png" -> "image/png"
       [] ext \in {".jpg", ".jpeg"} -> "image/jpeg"
       [] ext = ".gif" -> "image/gif"
       [] ext = ".webp" -> "image/webp"
       [] ext = ".svg" -> "image/svg+xml"
       [] ext = ".ico" -> "image/x-icon"
       [] ext = ".bmp" -> "image/bmp"
       [] OTHER -> "application/octet-stream"

Base64Alphabet ==
  << "A", "B", "C", "D", "E", "F", "G", "H", "I", "J", "K", "L", "M", "N", "O", "P",
     "Q", "R", "S", "T", "U", "V", "W", "X", "Y", "Z", "a", "b", "c", "d", "e", "f",
     "g", "h", "i", "j", "k", "l", "m", "n", "o", "p", "q", "r", "s", "t", "u", "v",
     "w", "x", "y", "z", "0", "1", "2", "3", "4", "5", "6", "7", "8", "9", "+", "/" >>

\* the four characters that encode a group of one to three bytes
Base64Group(b) ==
  LET n == Len(b)
      b1 == b[1]
      b2 == IF n >= 2 THEN b[2] ELSE 0
      b3 == IF n >= 3 THEN b[3] ELSE 0
  IN << Base64Alphabet[(b1 \div 4) + 1],
        Base64Alphabet[((b1 % 4) * 16 + (b2 \div 16)) + 1],
        IF n >= 2 THEN Base64Alphabet[((b2 % 16) * 4 + (b3 \div 64)) + 1] ELSE "=",
        IF n >= 3 THEN Base64Alphabet[(b3 % 64) + 1] ELSE "=" >>

\* Buffer.from(bytes).toString('base64'), or btoa of the binary string: the
\* characters of the encoding
RECURSIVE _uint8ArrayToBase64(_)
_uint8ArrayToBase64(uint8Array) ==
  IF uint8Array = << >> THEN << >>
  ELSE IF Len(uint8Array) <= 3 THEN Base64Group(uint8Array)
  ELSE Base64Group(SubSeq(uint8Array, 1, 3))
       \o _uint8ArrayToBase64(SubSeq(uint8Array, 4, Len(uint8Array)))

\* `data:${mimeType};base64,${base64}`
DataUrl(filePath, content) ==
  <<"data:", _getMimeType(filePath), ";base64,">> \o _uint8ArrayToBase64(content)

\* `<style type="text/css">\n${css}\n</style>`
StyleTag(css) == << Text("<style type=\"text/css\">") >> \o css \o << Text("</style>") >>

\* the replacement patterns of String.prototype.replace with a string as
\* the replacement: "$&" in it stands for the matched text
MATCHED == Text("$&")
RECURSIVE Substitution(_, _)
Substitution(replacement, matched) ==
  IF replacement = << >> THEN << >>
  ELSE (IF Head(replacement) = MATCHED THEN << matched >> ELSE << Head(replacement) >>)
       \o Substitution(Tail(replacement), matched)

\* as ReplaceLinks, without the g flag: the first match only
RECURSIVE ReplaceFirstLink(_, _, _)
ReplaceFirstLink(html, filename, styleTag) ==
  IF html = << >> THEN << >>
  ELSE IF Head(html).kind = "link" /\ EndsWith(Head(html).value, filename)
       THEN Substitution(styleTag, Head(html)) \o Tail(html)
       ELSE << Head(html) >> \o ReplaceFirstLink(Tail(html), filename, styleTag)

\* result.replace(/<link[^>]*href=["'][^"']*filename["'][^>]*>/gi, styleTag):
\* every link tag whose href ends with filename becomes the style block
RECURSIVE ReplaceLinks(_, _, _)
ReplaceLinks(html, filename, styleTag) ==
  IF html = << >> THEN << >>
  ELSE (IF Head(html).kind = "link" /\ EndsWith(Head(html).value, filename)
        THEN Substitution(styleTag, Head(html)) ELSE << Head(html) >>)
       \o ReplaceLinks(Tail(html), filename, styleTag)

\* result.replace(/(src|href)=["']([^"']*filename)["']/gi, `$1="${dataUrl}"`):
\* every src or href attribute whose value ends with filename gets the data
\* URL as its value
ReplaceRefs(html, filename, dataUrl) ==
  [ i \in 1..Len(html) |->
      IF /\ html[i].attr \in {"src", "href"}
         /\ EndsWith(html[i].value, filename)
      THEN [html[i] EXCEPT !.value = dataUrl]
      ELSE html[i] ]

\* the iteration order of the files Map: the order of insertion by the
\* HTML generator
InsertionOrder == << INDEX_HTML, THEME_CSS, EXTRA_CSS, LOGO_PNG >>
FileOrder(fs) == SelectSeq(InsertionOrder, LAMBDA k : k \in DOMAIN fs)

\* the loop over the files that inlines the CSS files other than theme.css
RECURSIVE InlineOtherCss(_, _, _)
InlineOtherCss(html, fs, paths) ==
  IF paths = << >> THEN html
  ELSE LET filePath == Head(paths)
           content == fs[filePath]
       IN InlineOtherCss(
            IF /\ content.type = "string"
               /\ EndsWith(filePath, <<".css">>)
               /\ filePath # THEME_CSS
            THEN ReplaceLinks(html, Basename(filePath), StyleTag(content.text))
            ELSE html,
            fs, Tail(paths))

\* the loop over the files that inlines the images as data URLs
RECURSIVE InlineImages(_, _, _)
InlineImages(html, fs, paths) ==
  IF paths = << >> THEN html
  ELSE LET filePath == Head(paths)
           content == fs[filePath]
       IN InlineImages(
            IF content.type = "bytes" /\ _isImagePath(filePath)
            THEN ReplaceRefs(html, Basename(filePath), DataUrl(filePath, content.bytes))
            ELSE html,
            fs, Tail(paths))

_inlineResources(html, fs) ==
  LET themeCss == Get(fs, THEME_CSS)
      themed == IF /\ THEME_CSS \in DOMAIN fs
                   /\ themeCss.type = "string"
                   /\ themeCss.text # << >>
                THEN ReplaceLinks(html, THEME_CSS, StyleTag(themeCss.text))
                ELSE html
  IN InlineImages(InlineOtherCss(themed, fs, FileOrder(fs)), fs, FileOrder(fs))

\* ------------------------------------------------------------------ state
VARIABLES
  arg,             \* per call: the caller's (source, options), or undefined
  direct,          \* the caller's direct call of validateOptions: input, output
  inlining,        \* _inlineResources applied on its own: input, output, and
                   \* the output of applying it to that output
  engineInstalled, \* environment: import('puppeteer') resolves
  nodeEnv,         \* environment: process.versions.node is set
  faultsLeft,      \* failures the environment may still inject
  nextUuid,        \* uuidv4: the next fresh identifier
  pc,              \* per call: the await the call is suspended at
  taskId,          \* per call: const taskId
  mergedOptions,   \* per call: const mergedOptions
  ticks,           \* per call: Date.now() - startTime, in resolved awaits
  observerLog,     \* per observer: the progress events delivered to it
  htmlCalls,       \* per call: the invocations of _htmlPlugin.convert
  files,           \* per call: htmlResult.data.files
  engineImports,   \* per call: import('puppeteer') attempts
  launches,        \* per call: puppeteer.launch invocations
  browser,         \* per browser object: none (not launched), open, closed
  handle,          \* per call: const browser, the browser object it refers to
  engineLog,       \* the operations issued on browser objects and their pages
  closes,          \* per call: browser.close invocations
  page,            \* per call: the page of its browser
  pending,         \* per call: completion of the try block awaiting finally
  image,           \* per call: { imageData, width, height } returned by render
  fsOps,           \* the file system operations performed
  result           \* per call: what convert resolved to (or rejected with)

vars == << arg, direct, inlining, engineInstalled, nodeEnv, faultsLeft, nextUuid, pc, taskId,
           mergedOptions, ticks, observerLog, htmlCalls, files, engineImports,
           launches, browser, handle, engineLog, closes, page, pending, image,
           fsOps, result >>

envVars == << arg, direct, inlining, engineInstalled, nodeEnv >>
renderVars == << files, engineImports, launches, browser, handle, engineLog, closes,
                 page, pending, image >>

NoPage == [viewport |-> Undefined, content |-> Undefined, loaded |-> FALSE, waited |-> FALSE,
           dimensions |-> Undefined, shot |-> Undefined]
NoPending == [kind |-> "none"]
NoDirect == [options |-> Undefined, validation |-> Undefined]
NoInlining == [html |-> Undefined, files |-> << >>, once |-> Undefined, twice |-> Undefined]

\* ------------------------------------------------------- caller's inputs
FormatChoices ==
  { << >>, [format |-> Some("jpg")], [format |-> Some("jpeg")], [format |-> Some("gif")],
    [format |-> Some("")], [format |-> Undefined] }
QualityChoices == { << >>, [quality |-> Some(50)], [quality |-> Some(150)] }
OutputChoices == { << >>, [outputPath |-> Some("")], [outputPath |-> Some("/out/card.png")] }
WaitChoices == { << >>, [waitTime |-> Some(0)] }
TransparentChoices == { << >>, [transparent |-> Some(TRUE)] }
ObserverChoices(p) == { << >>, [onProgress |-> Some(p)] }

CallerOptions(p) ==
  { a @@ b @@ c @@ d @@ e @@ f :
      a \in FormatChoices, b \in QualityChoices, c \in OutputChoices,
      d \in WaitChoices, e \in ObserverChoices(p), f \in TransparentChoices }

ConcCalls(p) ==
  { [source |-> "card", options |-> [onProgress |-> Some(p),
                                     outputPath |-> Some("/out/card.png")]],
    [source |-> "bad-card", options |-> [onProgress |-> Some(p)]] }

InitCalls ==
  /\ nextUuid = 1
  /\ pc = [p \in Procs |-> "idle"]
  /\ taskId = [p \in Procs |-> 0]
  /\ mergedOptions = [p \in Procs |-> << >>]
  /\ ticks = [p \in Procs |-> 0]
  /\ observerLog = [o \in Procs |-> << >>]
  /\ htmlCalls = [p \in Procs |-> << >>]
  /\ files = [p \in Procs |-> << >>]
  /\ engineImports = [p \in Procs |-> 0]
  /\ launches = [p \in Procs |-> 0]
  /\ browser = [p \in Procs |-> "none"]
  /\ handle = [p \in Procs |-> 0]
  /\ engineLog = {}
  /\ closes = [p \in Procs |-> 0]
  /\ page = [p \in Procs |-> NoPage]
  /\ pending = [p \in Procs |-> NoPending]
  /\ image = [p \in Procs |-> Undefined]
  /\ fsOps = {}
  /\ result = [p \in Procs |-> Undefined]

\* one convert call, any source, any options, any environment
Init ==
  /\ \E s \in Sources, o \in CallerOptions(1) :
       arg = [p \in Procs |-> IF p = 1 THEN Some([source |-> s, options |-> o])
                              ELSE Undefined]
  /\ direct = NoDirect
  /\ inlining = NoInlining
  /\ engineInstalled \in BOOLEAN
  /\ nodeEnv \in BOOLEAN
  /\ faultsLeft = MaxFaults
  /\ InitCalls

\* NumCalls concurrent convert calls, each with its own observer
InitConc ==
  /\ arg \in [Procs -> { Some(c) : c \in UNION {ConcCalls(q) : q \in Procs} }]
  /\ \A p \in Procs : arg[p][1] \in ConcCalls(p)
  /\ direct = NoDirect
  /\ inlining = NoInlining
  /\ engineInstalled = TRUE
  /\ nodeEnv = TRUE
  /\ faultsLeft = ConcFaults
  /\ InitCalls

\* one convert call that renders, for each scale and viewport size
ScaleChoices == { << >> } \cup { [scale |-> Some(x)] : x \in {5, 10, 15, 20, 25, 40} }
WidthChoices == { << >>, [width |-> Some(3)] }
HeightChoices == { << >>, [height |-> Some(3)] }
SizeOptions ==
  { a @@ b @@ c @@ d :
      a \in ScaleChoices, b \in WidthChoices, c \in HeightChoices,
      d \in { << >>, [outputPath |-> Some("/out/card.png")] } }

InitSize ==
  /\ \E s \in {"card", "small-card"}, o \in SizeOptions :
       arg = [p \in Procs |-> IF p = 1 THEN Some([source |-> s, options |-> o])
                              ELSE Undefined]
  /\ direct = NoDirect
  /\ inlining = NoInlining
  /\ engineInstalled = TRUE
  /\ nodeEnv = TRUE
  /\ faultsLeft = 1
  /\ InitCalls

\* two convert calls on the same source whose options differ in
\* backgroundColor only
PairColours == << "#ff0000", "#00ff00" >>
PairOptions ==
  { a @@ b @@ c :
      a \in { << >>, [format |-> Some("jpg")] },
      b \in { << >>, [transparent |-> Some(TRUE)], [transparent |-> Some(FALSE)] },
      c \in { << >>, [outputPath |-> Some("/out/card.png")] } }

InitPair ==
  /\ \E s \in {"card", "small-card"}, o \in PairOptions :
       arg = [p \in Procs |->
                IF p <= Len(PairColours)
                THEN Some([source |-> s,
                           options |-> o @@ [backgroundColor |-> Some(PairColours[p])]])
                ELSE Undefined]
  /\ direct = NoDirect
  /\ inlining = NoInlining
  /\ engineInstalled = TRUE
  /\ nodeEnv = TRUE
  /\ faultsLeft = 0
  /\ InitCalls

\* options for a direct call of validateOptions: each numeric option absent,
\* at and around the ends of its range
ValidateFormats ==
  { << >>, [format |-> Some("png")], [format |-> Some("jpg")], [format |-> Some("jpeg")],
    [format |-> Some("gif")] }
ValidateQualities == { << >> } \cup { [quality |-> Some(q)] : q \in {0, 1, 100, 101, 150} }
ValidateScales == { << >> } \cup { [scale |-> Some(x)] : x \in {-10, 0, 1, 40, 41} }
ValidateWidths == { << >> } \cup { [width |-> Some(w)] : w \in {-1, 0, 1} }
ValidateHeights == { << >> } \cup { [height |-> Some(h)] : h \in {0, 1} }
ValidateWaitTimes == { << >> } \cup { [waitTime |-> Some(w)] : w \in {-1, 0} }
ValidateTransparents == { << >>, [transparent |-> Some(TRUE)] }

ValidateInputs ==
  { a @@ b @@ c @@ d @@ e @@ f @@ g :
      a \in ValidateFormats, b \in ValidateQualities, c \in ValidateScales,
      d \in ValidateWidths, e \in ValidateHeights, f \in ValidateWaitTimes,
      g \in ValidateTransparents }

\* no convert call; one direct call of validateOptions on any options
InitValidate ==
  /\ arg = [p \in Procs |-> Undefined]
  /\ \E o \in ValidateInputs : direct = [options |-> Some(o), validation |-> Undefined]
  /\ inlining = NoInlining
  /\ engineInstalled = TRUE
  /\ nodeEnv = TRUE
  /\ faultsLeft = 0
  /\ InitCalls

\* documents and file sets for _inlineResources on its own.  A stylesheet
\* is any text: one of them holds a replacement pattern, one holds a link
\* tag (inside a comment).
MYLOGO_PNG == <<"my", "logo", ".png">>
HtmlTokens ==
  { Text("card"), Link(THEME_CSS), Link(EXTRA_CSS), Attr("src", LOGO_PNG),
    Attr("src", MYLOGO_PNG) }
Documents == UNION { [1..n -> HtmlTokens] : n \in 0..MaxTokens }
PATTERN_TEXT == << Text("a::after{content:'"), MATCHED, Text("'}") >>
COMMENTED_TEXT == << Text("/* after "), Link(THEME_CSS), Text(" */p{}") >>
ThemeChoices ==
  { << >> } \cup
  { [f \in {THEME_CSS} |-> c] :
      c \in {TextFile(THEME_TEXT), TextFile(PATTERN_TEXT), BytesFile(LOGO_BYTES)} }
ExtraChoices ==
  { << >> } \cup
  { [f \in {EXTRA_CSS} |-> TextFile(t)] : t \in {EXTRA_TEXT, COMMENTED_TEXT} }
LogoChoices == { << >>, [f \in {LOGO_PNG} |-> BytesFile(LOGO_BYTES)] }
FileSets(html) ==
  { [f \in {INDEX_HTML} |-> TextFile(html)] @@ a @@ b @@ c :
      a \in ThemeChoices, b \in ExtraChoices, c \in LogoChoices }

\* no convert call; _inlineResources on any document and file set
InitInline ==
  /\ arg = [p \in Procs |-> Undefined]
  /\ direct = NoDirect
  /\ \E html \in Documents : \E fs \in FileSets(html) :
       inlining = [html |-> Some(html), files |-> fs, once |-> Undefined,
                   twice |-> Undefined]
  /\ engineInstalled = TRUE
  /\ nodeEnv = TRUE
  /\ faultsLeft = 0
  /\ InitCalls

\* ----------------------------------------------------- progress reporting
ProgressInfo(tid, status, percent, step) ==
  [taskId |-> tid, status |-> status, percent |-> percent, currentStep |-> step]

\* as reportProgress, with the task id kept in one place shared by all calls
\* (the id generated last) instead of in the call's own constant
reportProgressShared(log, options, tid, p, status, percent, step) ==
  IF IsDefined(Get(options, "onProgress"))
  THEN [log EXCEPT ![options.onProgress[1]] =
          Append(@, [info |-> ProgressInfo(IF status = "converting-html" THEN tid
                                           ELSE nextUuid - 1, status, percent, step),
                     from |-> p])]
  ELSE log

\* reportProgress of call p: the event goes to the observer of p's merged
\* options, if there is one; "from" records the reporting call
reportProgress(log, options, tid, p, status, percent, step) ==
  IF IsDefined(Get(options, "onProgress"))
  THEN [log EXCEPT ![options.onProgress[1]] =
          Append(@, [info |-> ProgressInfo(tid, status, percent, step), from |-> p])]
  ELSE log

\* as ConvertCatch, with the exception rethrown to the caller after the
\* failed event
ConvertCatchRethrow(p, error, log, elapsed) ==
  /\ observerLog' = reportProgress(log, mergedOptions[p], taskId[p], p,
                                   "failed", 0, "error during conversion")
  /\ pc' = [pc EXCEPT ![p] = "rejected"]
  /\ UNCHANGED result

\* the catch block of convert
ConvertCatch(p, error, log, elapsed) ==
  /\ observerLog' = reportProgress(log, mergedOptions[p], taskId[p], p,
                                   "failed", 0, "error during conversion")
  /\ result' = [result EXCEPT ![p] =
       Some(_createErrorResult(taskId[p], ImageErrorCode.SCREENSHOT_FAILED,
              IF error.isError THEN error.message ELSE <<"unknown render error">>,
              elapsed,
              IF error.isError THEN Some(error) ELSE Undefined))]
  /\ pc' = [pc EXCEPT ![p] = "returned"]

\* the rejection of page.setContent when the 30000 ms timeout expires before
\* network idle
LOAD_TIMEOUT == "Navigation timeout of 30000 ms exceeded"

\* what an awaited operation of the environment may reject with
Faults(step) ==
  IF step = "setContent"
  THEN { Error(LOAD_TIMEOUT), Error("setContent failed") }
  ELSE { Error(step \o " failed") }

InjectFault == faultsLeft > 0 /\ faultsLeft' = faultsLeft - 1
Tick(p) == ticks' = [ticks EXCEPT ![p] = @ + 1]

\* -------------------------------------------------------------- convert
\* convert up to its first await: taskId, merge, validation, first event,
\* invocation of the HTML generator
Call(p) ==
  /\ pc[p] = "idle"
  /\ IsDefined(arg[p])
  /\ LET tid == nextUuid
         options == _mergeOptions(arg[p][1].options)
         validation == validateOptions(options)
     IN /\ nextUuid' = nextUuid + 1
        /\ taskId' = [taskId EXCEPT ![p] = tid]
        /\ mergedOptions' = [mergedOptions EXCEPT ![p] = options]
        /\ IF ~validation.valid
           THEN /\ result' = [result EXCEPT ![p] =
                     Some(_createErrorResult(tid, ImageErrorCode.INVALID_FORMAT,
                            IF IsDefined(validation.errors)
                            THEN Join(validation.errors[1], "; ")
                            ELSE <<"option validation failed">>,
                            ticks[p], Undefined))]
                /\ pc' = [pc EXCEPT ![p] = "returned"]
                /\ UNCHANGED << observerLog, htmlCalls >>
           ELSE /\ observerLog' = reportProgress(observerLog, options, tid, p,
                                     "converting-html", 0, "parsing card, generating HTML")
                /\ htmlCalls' = [htmlCalls EXCEPT ![p] =
                     Append(@, [source |-> arg[p][1].source,
                                themeId |-> Get(options, "themeId"),
                                includeAssets |-> TRUE])]
                /\ pc' = [pc EXCEPT ![p] = "html"]
                /\ UNCHANGED result
  /\ UNCHANGED << envVars, faultsLeft, ticks, renderVars, fsOps >>

\* as RenderingEvents, with the second checkpoint dropped
RenderingEventsOnce(log, options, tid, p) ==
  reportProgress(log, options, tid, p, "rendering", 30, "HTML generated, starting browser")

\* the two rendering checkpoints between the HTML stage and the render
RenderingEvents(log, options, tid, p) ==
  reportProgress(
    reportProgress(log, options, tid, p, "rendering", 30, "HTML generated, starting browser"),
    options, tid, p, "rendering", 40, "rendering page")

\* as HtmlFailureError, with the generator's own error dropped
HtmlFailureErrorSynthesized(htmlResult) ==
  [code |-> HTML_FALLBACK_CODE,
   message |-> <<"HTML conversion returned no data">>,
   cause |-> Undefined]

\* htmlResult.error ?? { code: 'CONV-HTML-002', message }
HtmlFailureError(htmlResult) ==
  Coalesce(htmlResult.error,
           [code |-> HTML_FALLBACK_CODE,
            message |-> <<"HTML conversion returned no data">>,
            cause |-> Undefined])

\* as HtmlFailureResult, in the shape of the earlier revision of convert:
\* the object literal has no duration
HtmlFailureResultEarlier(tid, htmlResult, elapsed) ==
  [ success    |-> FALSE,
    taskId     |-> tid,
    outputPath |-> Undefined,
    data       |-> Undefined,
    format     |-> Undefined,
    width      |-> Undefined,
    height     |-> Undefined,
    error      |-> Some(HtmlFailureError(htmlResult)),
    duration   |-> Undefined ]

\* the object literal returned when the HTML generator reports a failure
\* or returns no data
HtmlFailureResult(tid, htmlResult, elapsed) ==
  [ success    |-> FALSE,
    taskId     |-> tid,
    outputPath |-> Undefined,
    data       |-> Undefined,
    format     |-> Undefined,
    width      |-> Undefined,
    height     |-> Undefined,
    error      |-> Some(HtmlFailureError(htmlResult)),
    duration   |-> Some(elapsed) ]

\* as HtmlResolved, with no failed event for a generator result that
\* reports a failure
HtmlResolvedSilent(p) ==
  /\ pc[p] = "html"
  /\ Tick(p)
  /\ LET htmlResult == HtmlPluginConvert(arg[p][1].source)
         t == ticks[p] + 1
     IN IF htmlResult.kind = "throw"
        THEN /\ ConvertCatch(p, htmlResult.error, observerLog, t)
             /\ UNCHANGED << files, engineImports >>
        ELSE IF ~htmlResult.success \/ ~IsDefined(htmlResult.data)
        THEN /\ UNCHANGED observerLog
             /\ result' = [result EXCEPT ![p] =
                  Some(HtmlFailureResult(taskId[p], htmlResult, t))]
             /\ pc' = [pc EXCEPT ![p] = "returned"]
             /\ UNCHANGED << files, engineImports >>
        ELSE /\ observerLog' = RenderingEvents(observerLog, mergedOptions[p], taskId[p], p)
             /\ files' = [files EXCEPT ![p] = htmlResult.data[1].files]
             /\ engineImports' = [engineImports EXCEPT ![p] = @ + 1]
             /\ pc' = [pc EXCEPT ![p] = "import"]
             /\ UNCHANGED result
  /\ UNCHANGED << envVars, faultsLeft, nextUuid, taskId, mergedOptions, htmlCalls,
                  launches, browser, handle, engineLog, closes, page, pending, image,
                  fsOps >>

\* the HTML generator settles; on success convert reports rendering 30 and
\* 40 and enters _renderHTMLToImage up to import('puppeteer')
HtmlResolved(p) ==
  /\ pc[p] = "html"
  /\ Tick(p)
  /\ LET htmlResult == HtmlPluginConvert(arg[p][1].source)
         t == ticks[p] + 1
     IN IF htmlResult.kind = "throw"
        THEN /\ ConvertCatch(p, htmlResult.error, observerLog, t)
             /\ UNCHANGED << files, engineImports >>
        ELSE IF ~htmlResult.success \/ ~IsDefined(htmlResult.data)
        THEN /\ observerLog' = reportProgress(observerLog, mergedOptions[p], taskId[p], p,
                                  "failed", 0, "HTML conversion failed")
             /\ result' = [result EXCEPT ![p] =
                  Some(HtmlFailureResult(taskId[p], htmlResult, t))]
             /\ pc' = [pc EXCEPT ![p] = "returned"]
             /\ UNCHANGED << files, engineImports >>
        ELSE /\ observerLog' = RenderingEvents(observerLog, mergedOptions[p], taskId[p], p)
             /\ files' = [files EXCEPT ![p] = htmlResult.data[1].files]
             /\ engineImports' = [engineImports EXCEPT ![p] = @ + 1]
             /\ pc' = [pc EXCEPT ![p] = "import"]
             /\ UNCHANGED result
  /\ UNCHANGED << envVars, faultsLeft, nextUuid, taskId, mergedOptions, htmlCalls,
                  launches, browser, handle, engineLog, closes, page, pending, image,
                  fsOps >>

\* as IndexHtmlMissing, testing for undefined instead of falsy
IndexHtmlMissingUndefinedOnly(fs) ==
  LET indexHtml == Get(fs, INDEX_HTML)
  IN \/ ~IsDefined(indexHtml)
     \/ indexHtml.type # "string"

\* !indexHtml || typeof indexHtml !== 'string'
IndexHtmlMissing(fs) ==
  LET indexHtml == Get(fs, INDEX_HTML)
  IN \/ ~IsDefined(indexHtml)
     \/ indexHtml.type # "string"
     \/ indexHtml.text = << >>

PUPPETEER_MISSING == "puppeteer is required to render images"
INDEX_MISSING == "index.html not found"

\* import('puppeteer') settles; then the index.html check and the call of
\* puppeteer.launch
ImportResolved(p) ==
  /\ pc[p] = "import"
  /\ Tick(p)
  /\ IF ~engineInstalled
     THEN /\ ConvertCatch(p, Error(PUPPETEER_MISSING), observerLog, ticks[p] + 1)
          /\ UNCHANGED launches
     ELSE IF IndexHtmlMissing(files[p])
     THEN /\ ConvertCatch(p, Error(INDEX_MISSING), observerLog, ticks[p] + 1)
          /\ UNCHANGED launches
     ELSE /\ launches' = [launches EXCEPT ![p] = @ + 1]
          /\ pc' = [pc EXCEPT ![p] = "launch"]
          /\ UNCHANGED << observerLog, result >>
  /\ UNCHANGED << envVars, faultsLeft, nextUuid, taskId, mergedOptions, htmlCalls,
                  files, engineImports, browser, handle, engineLog, closes, page,
                  pending, image, fsOps >>

\* as LaunchedBrowser, with one browser instance kept for all calls: the
\* launch of a call is answered with the open browser of another call when
\* there is one
LaunchedBrowserShared(p) ==
  IF \E q \in Procs : q # p /\ handle[q] # 0 /\ browser[handle[q]] = "open"
  THEN handle[CHOOSE q \in Procs : q # p /\ handle[q] # 0 /\ browser[handle[q]] = "open"]
  ELSE p

\* the object puppeteer.launch resolves to: a new browser on every call,
\* named here by the call that launched it
LaunchedBrowser(p) == p

\* call p invokes an operation on the browser its constant refers to, or
\* on that browser's page
Issued(log, b, p, op) == log \cup { [browser |-> b, op |-> op, by |-> p] }

\* puppeteer.launch settles; on success browser.newPage is called
LaunchResolved(p) ==
  /\ pc[p] = "launch"
  /\ Tick(p)
  /\ \/ /\ browser' = [browser EXCEPT ![LaunchedBrowser(p)] = "open"]
        /\ handle' = [handle EXCEPT ![p] = LaunchedBrowser(p)]
        /\ engineLog' = Issued(Issued(engineLog, LaunchedBrowser(p), p, "launch"),
                               LaunchedBrowser(p), p, "newPage")
        /\ pc' = [pc EXCEPT ![p] = "newPage"]
        /\ UNCHANGED << faultsLeft, observerLog, result >>
     \/ /\ InjectFault
        /\ \E e \in Faults("launch") : ConvertCatch(p, e, observerLog, ticks[p] + 1)
        /\ UNCHANGED << browser, handle, engineLog >>
  /\ UNCHANGED << envVars, nextUuid, taskId, mergedOptions, htmlCalls, files,
                  engineImports, launches, closes, page, pending, image, fsOps >>

\* an awaited page operation inside the try block rejected: the finally
\* block calls browser.close with the exception pending
EnterFinally(p, completion) ==
  /\ pending' = [pending EXCEPT ![p] = completion]
  /\ engineLog' = Issued(engineLog, handle[p], p, "close")
  /\ closes' = [closes EXCEPT ![p] = @ + 1]
  /\ pc' = [pc EXCEPT ![p] = "close"]

\* as PageFault, without the try/finally: the exception goes straight to
\* the catch block of convert
PageFaultNoFinally(p, step) ==
  /\ InjectFault
  /\ \E e \in Faults(step) : ConvertCatch(p, e, observerLog, ticks[p] + 1)
  /\ UNCHANGED << page, pending, closes, engineLog >>

PageFault(p, step) ==
  /\ InjectFault
  /\ \E e \in Faults(step) : EnterFinally(p, [kind |-> "throw", error |-> e])
  /\ UNCHANGED << page, observerLog, result >>

Viewport(options) ==
  [ width             |-> Coalesce(Get(options, "width"), 800),
    height            |-> Coalesce(Get(options, "height"), 600),
    deviceScaleFactor |-> Coalesce(Get(options, "scale"), 1 * ScaleUnit) ]

pageFrame == << envVars, nextUuid, taskId, mergedOptions, htmlCalls,
                files, engineImports, launches, browser, handle, image, fsOps >>

\* browser.newPage settles; on success page.setViewport is called
NewPageResolved(p) ==
  /\ pc[p] = "newPage"
  /\ Tick(p)
  /\ \/ /\ pc' = [pc EXCEPT ![p] = "setViewport"]
        /\ engineLog' = Issued(engineLog, handle[p], p, "setViewport")
        /\ UNCHANGED << faultsLeft, page, pending, closes, observerLog, result >>
     \/ PageFault(p, "newPage")
  /\ UNCHANGED pageFrame

\* page.setViewport settles; on success page.setContent is called
SetViewportResolved(p) ==
  /\ pc[p] = "setViewport"
  /\ Tick(p)
  /\ \/ /\ page' = [page EXCEPT ![p].viewport = Some(Viewport(mergedOptions[p]))]
        /\ pc' = [pc EXCEPT ![p] = "setContent"]
        /\ engineLog' = Issued(engineLog, handle[p], p, "setContent")
        /\ UNCHANGED << faultsLeft, pending, closes, observerLog, result >>
     \/ PageFault(p, "setViewport")
  /\ UNCHANGED pageFrame

\* as SetContentResolved, with the settle wait left out: page.evaluate is
\* called as soon as the content is loaded
SetContentResolvedNoWait(p) ==
  /\ pc[p] = "setContent"
  /\ Tick(p)
  /\ \/ /\ page' = [page EXCEPT ![p].loaded = TRUE,
                                ![p].content = Some(_inlineResources(
                                                      files[p][INDEX_HTML].text, files[p]))]
        /\ pc' = [pc EXCEPT ![p] = "evaluate"]
        /\ engineLog' = Issued(engineLog, handle[p], p, "evaluate")
        /\ UNCHANGED << faultsLeft, pending, closes, observerLog, result >>
     \/ PageFault(p, "setContent")
  /\ UNCHANGED pageFrame

\* page.setContent settles (network idle, or the 30 s timeout); on success
\* the settle wait starts if waitTime > 0, else page.evaluate is called
SetContentResolved(p) ==
  /\ pc[p] = "setContent"
  /\ Tick(p)
  /\ \/ /\ page' = [page EXCEPT ![p].loaded = TRUE,
                                ![p].content = Some(_inlineResources(
                                                      files[p][INDEX_HTML].text, files[p]))]
        /\ pc' = [pc EXCEPT ![p] =
             IF Coalesce(Get(mergedOptions[p], "waitTime"), 1000) > 0
             THEN "wait" ELSE "evaluate"]
        /\ engineLog' =
             IF Coalesce(Get(mergedOptions[p], "waitTime"), 1000) > 0
             THEN engineLog ELSE Issued(engineLog, handle[p], p, "evaluate")
        /\ UNCHANGED << faultsLeft, pending, closes, observerLog, result >>
     \/ PageFault(p, "setContent")
  /\ UNCHANGED pageFrame

\* the setTimeout of the settle wait fires; page.evaluate is called
WaitResolved(p) ==
  /\ pc[p] = "wait"
  /\ Tick(p)
  /\ page' = [page EXCEPT ![p].waited = TRUE]
  /\ pc' = [pc EXCEPT ![p] = "evaluate"]
  /\ engineLog' = Issued(engineLog, handle[p], p, "evaluate")
  /\ UNCHANGED << faultsLeft, pending, closes, observerLog, result >>
  /\ UNCHANGED pageFrame

Max(S) == CHOOSE x \in S : \A y \in S : y <= x

\* the size the browser lays the content of a document out to, in CSS pixels
ContentSize(htmlContent) ==
  IF htmlContent = SMALL_INDEX_TEXT THEN [width |-> 5, height |-> 3]
  ELSE [width |-> 100, height |-> 50]

\* the document the page.evaluate callback sees: the extents of body and of
\* the root element for the loaded content in the configured viewport
Document(htmlContent, viewport) ==
  LET content == ContentSize(htmlContent)
  IN [ body |-> [ scrollWidth  |-> content.width,
                  offsetWidth  |-> content.width,
                  scrollHeight |-> content.height,
                  offsetHeight |-> content.height ],
       documentElement |->
               [ clientWidth  |-> viewport.width,
                 scrollWidth  |-> Max({viewport.width, content.width}),
                 offsetWidth  |-> viewport.width,
                 clientHeight |-> viewport.height,
                 scrollHeight |-> Max({viewport.height, content.height}),
                 offsetHeight |-> content.height ] ]

\* the callback of page.evaluate
MeasuredSize(document) ==
  LET body == document.body
      html == document.documentElement
  IN [ width  |-> Max({ body.scrollWidth, body.offsetWidth, html.clientWidth,
                        html.scrollWidth, html.offsetWidth }),
       height |-> Max({ body.scrollHeight, body.offsetHeight, html.clientHeight,
                        html.scrollHeight, html.offsetHeight }) ]

\* as ScreenshotOptions, with omitBackground set whatever the format
ScreenshotOptionsAnyFormat(options) ==
  LET format == Get(options, "format")
      jpeg == format = Some("jpg") \/ format = Some("jpeg")
  IN [ type           |-> IF jpeg THEN "jpeg" ELSE "png",
       fullPage       |-> TRUE,
       quality        |-> IF jpeg THEN Some(Coalesce(Get(options, "quality"), 90))
                          ELSE Undefined,
       omitBackground |-> Some(Coalesce(Get(options, "transparent"), FALSE)) ]

ScreenshotOptions(options) ==
  LET format == Get(options, "format")
      jpeg == format = Some("jpg") \/ format = Some("jpeg")
  IN [ type           |-> IF jpeg THEN "jpeg" ELSE "png",
       fullPage       |-> TRUE,
       quality        |-> IF jpeg THEN Some(Coalesce(Get(options, "quality"), 90))
                          ELSE Undefined,
       omitBackground |-> IF format = Some("png")
                          THEN Some(Coalesce(Get(options, "transparent"), FALSE))
                          ELSE Undefined ]

\* page.evaluate settles with the measured content size; on success
\* page.screenshot is called
EvaluateResolved(p) ==
  /\ pc[p] = "evaluate"
  /\ Tick(p)
  /\ \/ /\ page' = [page EXCEPT ![p].dimensions =
                      Some(MeasuredSize(Document(page[p].content[1],
                                                 page[p].viewport[1])))]
        /\ pc' = [pc EXCEPT ![p] = "screenshot"]
        /\ engineLog' = Issued(engineLog, handle[p], p, "screenshot")
        /\ UNCHANGED << faultsLeft, pending, closes, observerLog, result >>
     \/ PageFault(p, "evaluate")
  /\ UNCHANGED pageFrame

\* as RoundScaled, with the fraction cut off
RoundScaledDown(dimension, scale) == (dimension * scale) \div ScaleUnit

\* Math.round(dimension * deviceScaleFactor), scale in tenths
RoundScaled(dimension, scale) == (2 * dimension * scale + ScaleUnit) \div (2 * ScaleUnit)

\* as ScreenshotResolved, with capturing reported as soon as the screenshot
\* is taken, before the finally block
ScreenshotResolvedCapturing(p) ==
  /\ pc[p] = "screenshot"
  /\ Tick(p)
  /\ \/ LET shot == ScreenshotOptions(mergedOptions[p])
            scale == Coalesce(Get(mergedOptions[p], "scale"), 1 * ScaleUnit)
            dimensions == page[p].dimensions[1]
        IN /\ page' = [page EXCEPT ![p].shot = Some(shot)]
           /\ EnterFinally(p, [kind |-> "return",
                 value |-> [ imageData |-> [page |-> p, shot |-> shot],
                             width     |-> RoundScaled(dimensions.width, scale),
                             height    |-> RoundScaled(dimensions.height, scale) ]])
           /\ observerLog' = reportProgress(observerLog, mergedOptions[p], taskId[p], p,
                                            "capturing", 80, "generating image")
           /\ UNCHANGED << faultsLeft, result >>
     \/ PageFault(p, "screenshot")
  /\ UNCHANGED pageFrame

\* page.screenshot settles; on success the try block completes with the
\* return value; either way the finally block calls browser.close
ScreenshotResolved(p) ==
  /\ pc[p] = "screenshot"
  /\ Tick(p)
  /\ \/ LET shot == ScreenshotOptions(mergedOptions[p])
            scale == Coalesce(Get(mergedOptions[p], "scale"), 1 * ScaleUnit)
            dimensions == page[p].dimensions[1]
        IN /\ page' = [page EXCEPT ![p].shot = Some(shot)]
           /\ EnterFinally(p, [kind |-> "return",
                 value |-> [ imageData |-> [page |-> p, shot |-> shot],
                             width     |-> RoundScaled(dimensions.width, scale),
                             height    |-> RoundScaled(dimensions.height, scale) ]])
           /\ UNCHANGED << faultsLeft, observerLog, result >>
     \/ PageFault(p, "screenshot")
  /\ UNCHANGED pageFrame

\* the object convert returns at the end of its try block
SuccessResult(p, value, elapsed) ==
  LET outputPath == Get(mergedOptions[p], "outputPath")
  IN [ success    |-> TRUE,
       taskId     |-> taskId[p],
       outputPath |-> outputPath,
       data       |-> IF TruthyStr(outputPath) THEN Undefined ELSE Some(value.imageData),
       format     |-> Get(mergedOptions[p], "format"),
       width      |-> Some(value.width),
       height     |-> Some(value.height),
       error      |-> Undefined,
       duration   |-> Some(elapsed) ]

NODE_REQUIRED == "file write needs a Node.js environment"

\* as OutputStage, with completed reported before the file write is awaited
OutputStageCompletedFirst(p, value, capturing, t) ==
  IF TruthyStr(Get(mergedOptions[p], "outputPath"))
  THEN IF nodeEnv
       THEN /\ observerLog' = reportProgress(capturing, mergedOptions[p], taskId[p], p,
                                 "completed", 100, "conversion complete")
            /\ pc' = [pc EXCEPT ![p] = "mkdir"]
            /\ UNCHANGED result
       ELSE ConvertCatch(p, Error(NODE_REQUIRED), capturing, t)
  ELSE /\ observerLog' = reportProgress(capturing, mergedOptions[p], taskId[p], p,
                            "completed", 100, "conversion complete")
       /\ result' = [result EXCEPT ![p] = Some(SuccessResult(p, value, t))]
       /\ pc' = [pc EXCEPT ![p] = "returned"]

\* the output stage of convert, entered with the rendered value after the
\* capturing event: with a truthy outputPath _writeToFile runs up to its
\* first awaited file operation (fs.promises.mkdir), or throws outside
\* Node.js; otherwise completed 100 and the success result
OutputStage(p, value, capturing, t) ==
  IF TruthyStr(Get(mergedOptions[p], "outputPath"))
  THEN IF nodeEnv
       THEN /\ observerLog' = capturing
            /\ pc' = [pc EXCEPT ![p] = "mkdir"]
            /\ UNCHANGED result
       ELSE ConvertCatch(p, Error(NODE_REQUIRED), capturing, t)
  ELSE /\ observerLog' = reportProgress(capturing, mergedOptions[p], taskId[p], p,
                            "completed", 100, "conversion complete")
       /\ result' = [result EXCEPT ![p] = Some(SuccessResult(p, value, t))]
       /\ pc' = [pc EXCEPT ![p] = "returned"]

\* browser.close settles.  A close that rejects replaces the pending
\* completion and leaves the browser as the failed close left it.  After a
\* successful close the pending exception reaches the catch block, or
\* convert goes on: capturing 80, then the output branch up to its first
\* await (fs.promises.mkdir), or completed 100 and the success result.
CloseResolved(p) ==
  /\ pc[p] = "close"
  /\ Tick(p)
  /\ LET t == ticks[p] + 1
         options == mergedOptions[p]
         capturing == reportProgress(observerLog, options, taskId[p], p,
                                     "capturing", 80, "generating image")
     IN \/ /\ browser' = [browser EXCEPT ![handle[p]] = "closed"]
           /\ UNCHANGED faultsLeft
           /\ IF pending[p].kind = "throw"
              THEN /\ ConvertCatch(p, pending[p].error, observerLog, t)
                   /\ UNCHANGED image
              ELSE /\ image' = [image EXCEPT ![p] = Some(pending[p].value)]
                   /\ OutputStage(p, pending[p].value, capturing, t)
        \/ /\ InjectFault
           /\ \E b \in {"open", "closed"} : browser' = [browser EXCEPT ![handle[p]] = b]
           /\ \E e \in Faults("close") : ConvertCatch(p, e, observerLog, t)
           /\ UNCHANGED image
  /\ UNCHANGED << envVars, nextUuid, taskId, mergedOptions, htmlCalls, files,
                  engineImports, launches, handle, engineLog, closes, page, pending,
                  fsOps >>

\* path.dirname
Dirname(path) == IF path = "/out/card.png" THEN "/out" ELSE "."

writeFrame == << envVars, nextUuid, taskId, mergedOptions, htmlCalls, renderVars >>

\* fs.promises.mkdir(dir, { recursive: true }) settles; on success
\* fs.promises.writeFile is called
MkdirResolved(p) ==
  /\ pc[p] = "mkdir"
  /\ Tick(p)
  /\ \/ /\ fsOps' = fsOps \cup
             { [op |-> "mkdir", path |-> Dirname(mergedOptions[p].outputPath[1]),
                data |-> Undefined, by |-> p] }
        /\ pc' = [pc EXCEPT ![p] = "writeFile"]
        /\ UNCHANGED << faultsLeft, observerLog, result >>
     \/ /\ InjectFault
        /\ \E e \in Faults("mkdir") : ConvertCatch(p, e, observerLog, ticks[p] + 1)
        /\ UNCHANGED fsOps
  /\ UNCHANGED writeFrame

\* as WriteFileResolved, with a failed write answered by a failure result
\* that still carries what the render produced
WriteFileResolvedPartial(p) ==
  /\ pc[p] = "writeFile"
  /\ Tick(p)
  /\ \/ /\ fsOps' = fsOps \cup
             { [op |-> "writeFile", path |-> mergedOptions[p].outputPath[1],
                data |-> Some(image[p][1].imageData), by |-> p] }
        /\ observerLog' = reportProgress(observerLog, mergedOptions[p], taskId[p], p,
                                         "completed", 100, "image saved to file")
        /\ result' = [result EXCEPT ![p] =
                        Some(SuccessResult(p, image[p][1], ticks[p] + 1))]
        /\ pc' = [pc EXCEPT ![p] = "returned"]
        /\ UNCHANGED faultsLeft
     \/ /\ InjectFault
        /\ \E e \in Faults("writeFile") :
             /\ observerLog' = reportProgress(observerLog, mergedOptions[p], taskId[p], p,
                                              "failed", 0, "error during conversion")
             /\ result' = [result EXCEPT ![p] =
                  Some([_createErrorResult(taskId[p], ImageErrorCode.SCREENSHOT_FAILED,
                                           e.message, ticks[p] + 1, Some(e))
                          EXCEPT !.data = Some(image[p][1].imageData),
                                 !.width = Some(image[p][1].width),
                                 !.height = Some(image[p][1].height)])]
             /\ pc' = [pc EXCEPT ![p] = "returned"]
        /\ UNCHANGED fsOps
  /\ UNCHANGED writeFrame

\* fs.promises.writeFile settles; on success completed 100 and the result
WriteFileResolved(p) ==
  /\ pc[p] = "writeFile"
  /\ Tick(p)
  /\ \/ /\ fsOps' = fsOps \cup
             { [op |-> "writeFile", path |-> mergedOptions[p].outputPath[1],
                data |-> Some(image[p][1].imageData), by |-> p] }
        /\ observerLog' = reportProgress(observerLog, mergedOptions[p], taskId[p], p,
                                         "completed", 100, "image saved to file")
        /\ result' = [result EXCEPT ![p] =
                        Some(SuccessResult(p, image[p][1], ticks[p] + 1))]
        /\ pc' = [pc EXCEPT ![p] = "returned"]
        /\ UNCHANGED faultsLeft
     \/ /\ InjectFault
        /\ \E e \in Faults("writeFile") : ConvertCatch(p, e, observerLog, ticks[p] + 1)
        /\ UNCHANGED fsOps
  /\ UNCHANGED writeFrame

Next ==
  \E p \in Procs :
    \/ Call(p)
    \/ HtmlResolved(p)
    \/ ImportResolved(p)
    \/ LaunchResolved(p)
    \/ NewPageResolved(p)
    \/ SetViewportResolved(p)
    \/ SetContentResolved(p)
    \/ WaitResolved(p)
    \/ EvaluateResolved(p)
    \/ ScreenshotResolved(p)
    \/ CloseResolved(p)
    \/ MkdirResolved(p)
    \/ WriteFileResolved(p)

Spec == Init /\ [][Next]_vars

\* the caller calls validateOptions itself and keeps what it returns
ValidateOptionsCall ==
  /\ IsDefined(direct.options)
  /\ ~IsDefined(direct.validation)
  /\ direct' = [direct EXCEPT !.validation = Some(validateOptions(direct.options[1]))]
  /\ UNCHANGED << arg, inlining, engineInstalled, nodeEnv, faultsLeft, nextUuid, pc,
                  taskId, mergedOptions, ticks, observerLog, htmlCalls, renderVars,
                  fsOps, result >>

NextValidate == ValidateOptionsCall

SpecValidate == InitValidate /\ [][NextValidate]_vars

SpecConc == InitConc /\ [][Next]_vars

SpecPair == InitPair /\ [][Next]_vars

SpecSize == InitSize /\ [][Next]_vars

inlineFrame == << arg, direct, engineInstalled, nodeEnv, faultsLeft, nextUuid, pc,
                 taskId, mergedOptions, ticks, observerLog, htmlCalls, renderVars,
                 fsOps, result >>

\* _inlineResources(html, files) is applied to the document
InlineResourcesCall ==
  /\ IsDefined(inlining.html)
  /\ ~IsDefined(inlining.once)
  /\ inlining' = [inlining EXCEPT
                    !.once = Some(_inlineResources(inlining.html[1], inlining.files))]
  /\ UNCHANGED inlineFrame

\* _inlineResources is applied to its own output, with the same files
InlineResourcesAgain ==
  /\ IsDefined(inlining.once)
  /\ ~IsDefined(inlining.twice)
  /\ inlining' = [inlining EXCEPT
                    !.twice = Some(_inlineResources(inlining.once[1], inlining.files))]
  /\ UNCHANGED inlineFrame

NextInline == InlineResourcesCall \/ InlineResourcesAgain

SpecInline == InitInline /\ [][NextInline]_vars

\* ------------------------------------------------------------ vocabulary
Returned(p) == pc[p] = "returned"
Events(p) == [i \in 1..Len(observerLog[p]) |-> observerLog[p][i].info]
HasObserver(p) == IsDefined(Get(mergedOptions[p], "onProgress"))
TypeOK == \A p \in Procs : pc[p] \in {"idle", "html", "import", "launch", "newPage",
             "setViewport", "setContent", "wait", "evaluate", "screenshot", "close",
             "mkdir", "writeFile", "returned", "rejected"}

Res(p) == result[p][1]
Succeeded(p) == Returned(p) /\ IsDefined(result[p]) /\ Res(p).success
Failed(p) == Returned(p) /\ IsDefined(result[p]) /\ ~Res(p).success
ErrCode(p) == Res(p).error[1].code
ErrMsg(p) == Res(p).error[1].message
LastEvent(p) == observerLog[p][Len(observerLog[p])].info
\* status and percent of the events delivered to an observer, in order
Stream(o) == [i \in 1..Len(observerLog[o]) |->
                << observerLog[o][i].info.status, observerLog[o][i].info.percent >>]
\* a FileSet without an index.html entry with text content
NoIndexText(fs) ==
  \/ INDEX_HTML \notin DOMAIN fs
  \/ fs[INDEX_HTML].type = "bytes"
  \/ fs[INDEX_HTML].text = << >>
\* the caller's own outputPath option, undefined when there is none
RequestedPath(p) == Get(arg[p][1].options, "outputPath")
ErrorCodes == { ImageErrorCode[k] : k \in DOMAIN ImageErrorCode }
                 \cup { HTML_FALLBACK_CODE, "CONV-HTML-001" }

\* ------------------------------------------------------------------ C1
\* some step of call p has failed: the HTML generator threw or returned an
\* unusable result, the engine could not be loaded, index.html was missing,
\* the environment failed an awaited browser or file operation, or a file
\* write was required outside Node.js
StepFailed(p) ==
  \/ /\ htmlCalls[p] # << >>
     /\ pc[p] # "html"
     /\ LET h == HtmlPluginConvert(arg[p][1].source)
        IN h.kind = "throw" \/ ~h.success \/ ~IsDefined(h.data)
  \/ engineImports[p] > 0 /\ pc[p] # "import" /\ (~engineInstalled \/ NoIndexText(files[p]))
  \/ faultsLeft < MaxFaults
  \/ IsDefined(image[p]) /\ TruthyStr(Get(mergedOptions[p], "outputPath")) /\ ~nodeEnv

\* C1: convert never rejects: a call that was made is either still running
\* with a step to take, or has returned a result; when any step failed (HTML
\* generation, engine load, missing index.html, launch, a page operation,
\* close, file write) the result has success = false, and every failure
\* result carries an error with a code and a message.
C1_FaultsNeverEscape ==
  \A p \in Procs :
    /\ pc[p] # "rejected"
    /\ (taskId[p] # 0 /\ ~Returned(p)) =>
         ENABLED (\/ HtmlResolved(p) \/ ImportResolved(p) \/ LaunchResolved(p)
                  \/ NewPageResolved(p) \/ SetViewportResolved(p)
                  \/ SetContentResolved(p) \/ WaitResolved(p) \/ EvaluateResolved(p)
                  \/ ScreenshotResolved(p) \/ CloseResolved(p) \/ MkdirResolved(p)
                  \/ WriteFileResolved(p))
    /\ Returned(p) =>
         /\ IsDefined(result[p])
         /\ StepFailed(p) => ~Res(p).success
         /\ ~Res(p).success =>
              /\ IsDefined(Res(p).error)
              /\ ErrCode(p) \in ErrorCodes
              /\ Len(ErrMsg(p)) >= 1

\* a page operation failed, then browser.close failed too, and convert
\* still returned a failure result
C1_Witness ==
  \E p \in Procs :
    /\ Failed(p)
    /\ MaxFaults - faultsLeft = 2
    /\ pending[p].kind = "throw"
    /\ ErrMsg(p) = <<"close failed">>

\* ------------------------------------------------------------------ C2
\* C2: in every success result exactly one of data and outputPath is
\* populated: outputPath and no data when the caller supplied an outputPath
\* option (any value, the empty string included), data and no outputPath
\* when the caller supplied none.
C2_DataXorOutputPath ==
  \A p \in Procs :
    Succeeded(p) =>
      /\ IsDefined(Res(p).outputPath) # IsDefined(Res(p).data)
      /\ IsDefined(RequestedPath(p)) =>
           IsDefined(Res(p).outputPath) /\ ~IsDefined(Res(p).data)
      /\ ~IsDefined(RequestedPath(p)) =>
           IsDefined(Res(p).data) /\ ~IsDefined(Res(p).outputPath)

\* ------------------------------------------------------------------ C3
\* C3: the percent values of the events delivered to an observer within
\* one call never decrease along the stream, a final failed event included.
C3_PercentNonDecreasing ==
  \A o \in Procs :
    \A i, j \in 1..Len(observerLog[o]) :
      i < j => observerLog[o][i].info.percent <= observerLog[o][j].info.percent

\* ------------------------------------------------------------------ C4
\* C4: a failed or completed event is the last event of its stream: no
\* event follows a terminal event, so at most one terminal event occurs per
\* call and failed never follows completed.
C4_TerminalEventIsLast ==
  \A o \in Procs :
    \A i \in 1..Len(observerLog[o]) :
      observerLog[o][i].info.status \in {"failed", "completed"} => i = Len(observerLog[o])

\* the file write failed after capturing: failed is the fifth and last event
C4_Witness ==
  \E p \in Procs :
    /\ Failed(p)
    /\ Len(observerLog[p]) = 5
    /\ observerLog[p][4].info.status = "capturing"
    /\ LastEvent(p).status = "failed"

\* ------------------------------------------------------------------ C5
\* C5: a call that returns success with an observer supplied has delivered
\* exactly converting-html 0, rendering 30, rendering 40, capturing 80,
\* completed 100, in this order, each once.
C5_SuccessStream ==
  \A p \in Procs :
    (Succeeded(p) /\ HasObserver(p)) =>
      Stream(p) = << <<"converting-html", 0>>, <<"rendering", 30>>, <<"rendering", 40>>,
                     <<"capturing", 80>>, <<"completed", 100>> >>

\* a success with an observer, on the path that wrote the file
C5_Witness ==
  \E p \in Procs :
    /\ Succeeded(p)
    /\ HasObserver(p)
    /\ \E f \in fsOps : f.op = "writeFile" /\ f.by = p

C7_TaskIdsNotCrossed ==
  /\ \A o \in Procs :
       \A i \in 1..Len(observerLog[o]) :
         /\ observerLog[o][i].from = o
         /\ observerLog[o][i].info.taskId = taskId[o]
  /\ \A p \in Procs : (Returned(p) /\ IsDefined(result[p])) => Res(p).taskId = taskId[p]
  /\ \A p, q \in Procs : (p # q /\ taskId[p] # 0 /\ taskId[q] # 0) => taskId[p] # taskId[q]

\* two calls in flight at once, each with events already delivered, the one
\* that started later being further along
C7_Witness ==
  \E p, q \in Procs :
    /\ p # q
    /\ taskId[p] < taskId[q]
    /\ pc[p] = "setContent"
    /\ pc[q] = "screenshot"
    /\ Len(observerLog[p]) = 3
    /\ Len(observerLog[q]) = 3

\* ------------------------------------------------------------------ C8
\* the message of the validation failure for the options the caller can
\* pass here: the format error, then the quality error, joined by "; "
ExpectedValidationMessage(options) ==
  LET fmt == IF Get(options, "format") = Some("gif")
             THEN <<"unsupported format: ", "gif">> ELSE << >>
      qual == IF Get(options, "quality") = Some(150)
              THEN <<"quality must be 1-100, got: ", "150">> ELSE << >>
  IN IF fmt # << >> /\ qual # << >> THEN fmt \o <<"; ">> \o qual ELSE fmt \o qual

C9_ContentMissingWhateverEngine ==
  \A p \in Procs :
    (Returned(p) /\ engineImports[p] > 0 /\ NoIndexText(files[p])) =>
      /\ Failed(p)
      /\ ErrMsg(p) = <<INDEX_MISSING>>
      /\ launches[p] = 0
      /\ browser[p] = "none"

\* C9 as amended: for a FileSet without an index.html text entry (absent,
\* empty text, or bytes) the render fails and no browser is launched,
\* whatever the state of the render engine; the failure is the
\* index.html-missing one when the engine loads, and the engine-required
\* one when it does not, since the engine is loaded first.
C9_ContentMissingAfterEngineLoad ==
  \A p \in Procs :
    (engineImports[p] > 0 /\ NoIndexText(files[p])) =>
      /\ launches[p] = 0
      /\ browser[p] = "none"
      /\ pc[p] \in {"import", "returned"}
      /\ Returned(p) =>
           /\ Failed(p)
           /\ ErrMsg(p) = IF engineInstalled THEN <<INDEX_MISSING>>
                          ELSE <<PUPPETEER_MISSING>>

\* index.html present with empty text, engine installed: the render failed
\* with the index.html-missing failure
C9_Witness ==
  \E p \in Procs :
    /\ Failed(p)
    /\ engineInstalled
    /\ INDEX_HTML \in DOMAIN files[p]
    /\ files[p][INDEX_HTML].text = << >>
    /\ files[p][INDEX_HTML].type = "string"
    /\ ErrMsg(p) = <<INDEX_MISSING>>

\* ------------------------------------------------------------------ C10
\* C10: when outputPath was requested and the persistence step failed
\* (mkdir or writeFile threw, or there is no Node.js file system), the
\* failure result carries the FILE_WRITE_FAILED code CONV-IMG-005, not the
\* code of a capture failure.
C10_WriteFailureCode ==
  \A p \in Procs :
    (Failed(p) /\ IsDefined(image[p]) /\ TruthyStr(Get(mergedOptions[p], "outputPath"))) =>
      /\ ErrCode(p) = "CONV-IMG-005"
      /\ ErrCode(p) # "CONV-IMG-004"

\* ------------------------------------------------------------------ C11
\* the HTML generator of call p has settled with a result that reports a
\* failure or carries no data
HtmlUnusable(p) ==
  /\ htmlCalls[p] # << >>
  /\ pc[p] # "html"
  /\ LET h == HtmlPluginConvert(arg[p][1].source)
     IN h.kind = "result" /\ (~h.success \/ ~IsDefined(h.data))

\* C11: when the HTML generator returns success = false or returns no data,
\* convert has returned a failure result whose error is the generator's own
\* error when it supplied one and the synthesized error with code
\* CONV-HTML-002 otherwise, and the render engine was neither loaded nor
\* launched in that call.
C11_HtmlFailureStopsBeforeRender ==
  \A p \in Procs :
    HtmlUnusable(p) =>
      LET h == HtmlPluginConvert(arg[p][1].source)
      IN /\ Failed(p)
         /\ IF h.error # Undefined
            THEN Res(p).error = h.error
            ELSE ErrCode(p) = "CONV-HTML-002" /\ ErrMsg(p) # << >>
         /\ engineImports[p] = 0
         /\ launches[p] = 0
         /\ browser[p] = "none"
         /\ closes[p] = 0

\* the generator failed with its own error CONV-HTML-001 and convert
\* returned it
C11_Witness ==
  \E p \in Procs :
    /\ HtmlUnusable(p)
    /\ Failed(p)
    /\ ErrCode(p) = "CONV-HTML-001"
    /\ ErrMsg(p) = <<"cannot parse card">>

WriteCompleted(p) ==
  \E f \in fsOps :
    /\ f.op = "writeFile"
    /\ f.by = p
    /\ f.path = RequestedPath(p)[1]
    /\ f.data = Some(image[p][1].imageData)

RecognizedFormats == {"png", "jpg", "jpeg"}

\* C14: validateOptions reports an error (valid = false) for every format
\* value that is not one of png, jpg, jpeg, the empty string included;
\* consequently convert never renders with an unrecognized format.
C14_UnrecognizedFormatRejected ==
  \A p \in Procs :
    LET format == Get(mergedOptions[p], "format")
    IN (taskId[p] # 0 /\ IsDefined(format) /\ format[1] \notin RecognizedFormats) =>
         /\ ~validateOptions(mergedOptions[p]).valid
         /\ IsDefined(validateOptions(mergedOptions[p]).errors)
         /\ engineImports[p] = 0
         /\ launches[p] = 0
         /\ page[p].shot = Undefined

\* ------------------------------------------------------------------ C15
\* the range rules of the specification, one per numeric option
QualityInRange(o) == "quality" \in DOMAIN o => (o.quality[1] >= 1 /\ o.quality[1] <= 100)
ScaleInRange(o) == "scale" \in DOMAIN o => (o.scale[1] > 0 /\ o.scale[1] <= 4 * ScaleUnit)
WidthInRange(o) == "width" \in DOMAIN o => o.width[1] > 0
HeightInRange(o) == "height" \in DOMAIN o => o.height[1] > 0
WaitTimeInRange(o) == "waitTime" \in DOMAIN o => o.waitTime[1] >= 0
RangeViolations(o) ==
  (IF QualityInRange(o) THEN 0 ELSE 1) + (IF ScaleInRange(o) THEN 0 ELSE 1)
  + (IF WidthInRange(o) THEN 0 ELSE 1) + (IF HeightInRange(o) THEN 0 ELSE 1)
  + (IF WaitTimeInRange(o) THEN 0 ELSE 1)

QualityWithPng(o) == "quality" \in DOMAIN o /\ o.quality # Undefined /\ o.format = Some("png")
\* transparent = true with a format other than png
TransparentWithoutPng(o) == Get(o, "transparent") = Some(TRUE) /\ o.format # Some("png")

\* C16: warnings never block: quality supplied together with format png,
\* and transparent = true with a non-PNG format, each add a warning and no
\* error, so validateOptions returns valid = true when no rule is violated,
\* and convert on such options goes on to HTML generation and, when the
\* HTML is there, to rendering.
C16_WarningsNeverBlock ==
  \A p \in Procs :
    (taskId[p] # 0 /\ Get(mergedOptions[p], "format") # Undefined) =>
      LET o == mergedOptions[p]
          v == validateOptions(o)
          expected == (IF QualityWithPng(o) THEN 1 ELSE 0)
                      + (IF TransparentWithoutPng(o) THEN 1 ELSE 0)
      IN /\ expected > 0 => IsDefined(v.warnings) /\ Len(v.warnings[1]) = expected
         /\ expected = 0 => v.warnings = Undefined
         /\ (expected > 0 /\ o.format[1] \in RecognizedFormats /\ RangeViolations(o) = 0) =>
              /\ v.valid
              /\ v.errors = Undefined
              /\ htmlCalls[p] # << >>
              /\ Failed(p) => ErrCode(p) # "CONV-IMG-006"
              /\ (pc[p] # "html" /\ ~HtmlUnusable(p)
                    /\ HtmlPluginConvert(arg[p][1].source).kind = "result") =>
                   engineImports[p] = 1

\* transparent = true with format jpg: a warning, and the conversion
\* succeeded
C16_Witness ==
  \E p \in Procs :
    /\ Succeeded(p)
    /\ TransparentWithoutPng(mergedOptions[p])
    /\ mergedOptions[p].format = Some("jpg")
    /\ validateOptions(mergedOptions[p]).warnings = Some(<< <<"transparent only applies to PNG">> >>)
    /\ page[p].shot # Undefined

\* ------------------------------------------------------------------ C17
\* C17: option merging is a shallow override in which every field the
\* caller leaves unset (absent, or present with the value undefined) takes
\* its default, and every field the caller sets keeps the caller's value;
\* in particular the format reported in a success result is the caller's
\* format or the default png, never undefined.
C17_UnsetFieldsTakeDefaults ==
  \A p \in Procs :
    taskId[p] # 0 =>
      LET options == arg[p][1].options
      IN /\ \A f \in DOMAIN DEFAULT_OPTIONS :
              mergedOptions[p][f] = IF Get(options, f) = Undefined
                                    THEN DEFAULT_OPTIONS[f]
                                    ELSE options[f]
         /\ \A f \in DOMAIN options : mergedOptions[p][f] = options[f] \/ options[f] = Undefined
         /\ Succeeded(p) =>
              /\ Res(p).format # Undefined
              /\ Res(p).format = Some(Coalesce(Get(options, "format"), "png"))

\* ------------------------------------------------------------------ C18
\* C18: concurrent convert calls never share a browser instance: each call
\* that reaches rendering launches its own browser (at most one launch per
\* call), no two calls hold the same browser, every page operation and the
\* close of a browser are issued only by the call that launched it, and no
\* call's browser is closed by another call.
C18_NoSharedBrowser ==
  /\ \A p \in Procs :
       /\ launches[p] <= 1
       /\ closes[p] <= 1
       /\ handle[p] # 0 =>
            /\ launches[p] = 1
            /\ [browser |-> handle[p], op |-> "launch", by |-> p] \in engineLog
       /\ \A q \in Procs : (q # p /\ handle[p] # 0) => handle[q] # handle[p]
  /\ \A r \in engineLog :
       /\ handle[r.by] = r.browser
       /\ \A l \in engineLog : (l.op = "launch" /\ l.browser = r.browser) => l.by = r.by
  /\ \A b \in Procs :
       browser[b] = "closed" =>
         \E r \in engineLog : r.browser = b /\ r.op = "close" /\ r.by = b

\* two calls render at the same time, each on an open browser of its own,
\* one of them already capturing
C18_Witness ==
  \E p, q \in Procs :
    /\ p # q
    /\ handle[p] # 0
    /\ handle[q] # 0
    /\ browser[handle[p]] = "open"
    /\ browser[handle[q]] = "open"
    /\ pc[p] = "screenshot"
    /\ pc[q] \in {"setContent", "evaluate"}

\* ------------------------------------------------------------------ C19
\* the page load of call p ended by the 30 second timeout of setContent
LoadTimedOut(p) ==
  /\ pending[p].kind = "throw"
  /\ pending[p].error.message = <<LOAD_TIMEOUT>>

\* C19: when the page load does not reach network idle within the 30
\* seconds, the wait has ended and convert, once returned, returns a
\* failure result classified as a load timeout (PAGE_LOAD_TIMEOUT,
\* CONV-IMG-003), which its code tells apart from a capture failure.
C19_LoadTimeoutCode ==
  \A p \in Procs :
    (LoadTimedOut(p) /\ Returned(p) /\ browser[handle[p]] = "closed") =>
      /\ Failed(p)
      /\ ErrCode(p) = ImageErrorCode.PAGE_LOAD_TIMEOUT
      /\ ErrCode(p) # ImageErrorCode.SCREENSHOT_FAILED

\* ------------------------------------------------------------------ C20
\* what call p passed to the HTML generator, and to the render engine: the
\* operations it invoked, the viewport, the page content and the capture
\* request
HtmlInputs(p) == htmlCalls[p]
EngineInputs(p) ==
  [ ops      |-> { r.op : r \in { x \in engineLog : x.by = p } },
    viewport |-> page[p].viewport,
    content  |-> page[p].content,
    shot     |-> page[p].shot ]

\* the calls p and q were made with the same source and with options that
\* differ in backgroundColor and in nothing else
DifferInBackgroundOnly(p, q) ==
  /\ arg[p] # Undefined
  /\ arg[q] # Undefined
  /\ arg[p][1].source = arg[q][1].source
  /\ DOMAIN arg[p][1].options = DOMAIN arg[q][1].options
  /\ "backgroundColor" \in DOMAIN arg[p][1].options
  /\ \A f \in DOMAIN arg[p][1].options :
       (arg[p][1].options[f] = arg[q][1].options[f]) = (f # "backgroundColor")

\* C20: backgroundColor is meaningful exactly when transparent is false:
\* two convert calls that differ only in backgroundColor pass identical
\* inputs to the HTML generator and the render engine when transparent is
\* true, and different inputs to at least one of them when transparent is
\* false.
C20_BackgroundIffOpaque ==
  \A p, q \in Procs :
    (p # q /\ DifferInBackgroundOnly(p, q) /\ Succeeded(p) /\ Succeeded(q)) =>
      LET same == HtmlInputs(p) = HtmlInputs(q) /\ EngineInputs(p) = EngineInputs(q)
      IN IF TruthyBool(Get(mergedOptions[p], "transparent")) THEN same ELSE ~same

\* ------------------------------------------------------------------ C21
\* the operations call p has invoked on its browser and page so far
Ops(p) == { r.op : r \in { x \in engineLog : x.by = p } }
\* options.waitTime ?? 1000
EffectiveWaitTime(p) == Coalesce(Get(mergedOptions[p], "waitTime"), 1000)

\* C21: inside one render the steps happen in the fixed order launch,
\* viewport configuration, page load, settle wait, measurement, screenshot,
\* browser close; the settle wait is performed iff the effective waitTime
\* is > 0, never starts before the load has completed, and the screenshot
\* never starts before the settle wait has ended.
C21_RenderStepOrder ==
  \A p \in Procs :
    /\ "setViewport" \in Ops(p) => "launch" \in Ops(p) /\ browser[handle[p]] # "none"
    /\ "setContent" \in Ops(p) => page[p].viewport # Undefined
    /\ pc[p] = "wait" => page[p].loaded /\ ~page[p].waited /\ EffectiveWaitTime(p) > 0
    /\ page[p].waited => page[p].loaded /\ EffectiveWaitTime(p) > 0
    /\ "evaluate" \in Ops(p) =>
         /\ page[p].loaded
         /\ page[p].waited = (EffectiveWaitTime(p) > 0)
    /\ "screenshot" \in Ops(p) =>
         /\ page[p].dimensions # Undefined
         /\ page[p].waited = (EffectiveWaitTime(p) > 0)
    /\ page[p].shot # Undefined => "close" \in Ops(p)
    /\ "close" \in Ops(p) => "launch" \in Ops(p)
    /\ (browser[p] = "open" /\ "close" \notin Ops(p)) =>
         pc[p] \in {"newPage", "setViewport", "setContent", "wait", "evaluate", "screenshot"}
    /\ "close" \in Ops(p) =>
         pc[p] \notin {"newPage", "setViewport", "setContent", "wait", "evaluate", "screenshot"}

\* a render with the default settle wait went through every step and its
\* browser is closed
C21_Witness ==
  \E p \in Procs :
    /\ Succeeded(p)
    /\ EffectiveWaitTime(p) = 1000
    /\ page[p].waited
    /\ page[p].shot # Undefined
    /\ Ops(p) = {"launch", "newPage", "setViewport", "setContent", "evaluate",
                 "screenshot", "close"}
    /\ browser[p] = "closed"

\* ------------------------------------------------------------------ C22
\* C22: the capture request is a function of format, quality and
\* transparent only: type is jpeg with quality = the effective quality when
\* format is jpg or jpeg, and png with no quality otherwise; fullPage is
\* always true; the background is omitted iff format is png and transparent
\* is true, and transparent has no effect on a jpeg capture.
C22_CaptureRequest ==
  \A p \in Procs :
    page[p].shot # Undefined =>
      LET shot == page[p].shot[1]
          format == Get(mergedOptions[p], "format")
          quality == Get(mergedOptions[p], "quality")
          transparent == Get(mergedOptions[p], "transparent")
      IN /\ DOMAIN shot = {"type", "fullPage", "quality", "omitBackground"}
         /\ shot.fullPage
         /\ IF format \in {Some("jpg"), Some("jpeg")}
            THEN /\ shot.type = "jpeg"
                 /\ shot.quality = IF quality = Undefined THEN Some(90) ELSE quality
                 /\ shot.omitBackground = Undefined
            ELSE /\ shot.type = "png"
                 /\ shot.quality = Undefined
         /\ (shot.omitBackground = Some(TRUE)) = (format = Some("png") /\ transparent = Some(TRUE))

\* a jpeg capture with the caller's quality 50 and transparent = true: the
\* request has no omitBackground
C22_Witness ==
  \E p \in Procs :
    /\ Succeeded(p)
    /\ mergedOptions[p].format = Some("jpeg")
    /\ mergedOptions[p].transparent = Some(TRUE)
    /\ page[p].shot = Some([type |-> "jpeg", fullPage |-> TRUE, quality |-> Some(50),
                            omitBackground |-> Undefined])

\* ------------------------------------------------------------------ C23
\* options.scale ?? 1, in tenths
EffectiveScale(p) == Coalesce(Get(mergedOptions[p], "scale"), ScaleUnit)
\* n is the integer nearest to dimension * scale, a half rounding up
IsNearest(n, dimension, scale) ==
  /\ 2 * ScaleUnit * n <= 2 * dimension * scale + ScaleUnit
  /\ 2 * ScaleUnit * n > 2 * dimension * scale - ScaleUnit

CompletedReported(p) ==
  \E o \in DOMAIN observerLog : \E i \in 1..Len(observerLog[o]) :
    observerLog[o][i].from = p /\ observerLog[o][i].info.status = "completed"
\* call p has created the directory dir
DirectoryCreated(p, dir) ==
  \E f \in fsOps : f.op = "mkdir" /\ f.by = p /\ f.path = dir
\* the parent directory of the paths the callers pass
ParentDirectory(path) == IF path = "/out/card.png" THEN "/out" ELSE "."

\* C24: when the caller gave an outputPath, a success result and the
\* completed event are produced only after the parent directory has been
\* created and the write of exactly the captured bytes to exactly that path
\* has completed (the directory before the write); when no outputPath was
\* given, the call creates no directory and writes no file.
C24_WrittenBeforeCompleted ==
  \A p \in Procs :
    IsDefined(arg[p]) =>
      IF IsDefined(RequestedPath(p))
      THEN /\ (Succeeded(p) \/ CompletedReported(p)) =>
                /\ DirectoryCreated(p, ParentDirectory(RequestedPath(p)[1]))
                /\ WriteCompleted(p)
           /\ \A f \in fsOps :
                (f.by = p /\ f.op = "writeFile") =>
                   DirectoryCreated(p, ParentDirectory(RequestedPath(p)[1]))
      ELSE \A f \in fsOps : f.by # p

\* ------------------------------------------------------------------ C25
\* the theme text of the file set, when theme.css is in it as text
ThemeAsText(fs) ==
  IF THEME_CSS \in DOMAIN fs /\ fs[THEME_CSS].type = "string" /\ fs[THEME_CSS].text # << >>
  THEN Some(fs[THEME_CSS].text) ELSE Undefined
\* token t is a link tag that references the file named name
LinkTo(t, name) == t.kind = "link" /\ Basename(t.value) = name
\* the number of tokens of a document that satisfy Test
Count(doc, Test(_)) == Cardinality({ i \in 1..Len(doc) : Test(doc[i]) })
ThemeLinks(doc) == Count(doc, LAMBDA t : LinkTo(t, THEME_CSS))
\* the number of places of a document where block stands, token for token
Occurrences(doc, block) ==
  Cardinality({ i \in 1..(Len(doc) - Len(block) + 1) :
                  SubSeq(doc, i, i + Len(block) - 1) = block })
\* the style block that holds a text verbatim
VerbatimStyle(text) ==
  << Text("<style type=\"text/css\">") >> \o text \o << Text("</style>") >>
\* no stylesheet of the file set holds a replacement pattern or a link tag
PlainStylesheets(fs) ==
  \A f \in DOMAIN fs :
    (f # INDEX_HTML /\ fs[f].type = "string") =>
      \A i \in 1..Len(fs[f].text) : fs[f].text[i] # MATCHED /\ fs[f].text[i].kind # "link"

IsReference(t) == t.kind = "link" \/ (t.kind = "attr" /\ t.attr \in {"src", "href"})
\* the last path segments of the entries of a file set
Basenames(fs) == { Basename(f) : f \in DOMAIN fs }

\* C26: inlining matches by basename, directories ignored, names literal: a
\* link, src or href reference is rewritten with the content of a file only
\* when the last path segment of the reference equals that file's basename;
\* a reference to a file whose name merely ends with an entry's basename
\* (mylogo.png against logo.png) is in the output as it was in the input.
C26_BasenameMatchOnly ==
  IsDefined(inlining.once) =>
    \A i \in 1..Len(inlining.html[1]) :
      LET t == inlining.html[1][i]
      IN (IsReference(t) /\ Basename(t.value) \notin Basenames(inlining.files)) =>
           Count(inlining.once[1], LAMBDA u : u = t)
             >= Count(inlining.html[1], LAMBDA u : u = t)

\* ------------------------------------------------------------------ C27
\* no reference of the document names an entry of the file set by its last
\* path segment
NoReferenceTo(doc, fs) ==
  \A i \in 1..Len(doc) :
    IsReference(doc[i]) => Basename(doc[i].value) \notin Basenames(fs)

\* C27: inlining is idempotent for every document and file set,
\* inline(inline(h, F), F) = inline(h, F), and inline(h, F) = h whenever h
\* holds no reference to any entry of F.
C27_Idempotent ==
  /\ IsDefined(inlining.twice) => inlining.twice = inlining.once
  /\ (IsDefined(inlining.once) /\ NoReferenceTo(inlining.html[1], inlining.files)) =>
       inlining.once = inlining.html

\* ------------------------------------------------------------------ C28
\* the failed events call p has delivered to its observer
FailedEvents(p) ==
  { i \in 1..Len(observerLog[p]) :
      observerLog[p][i].from = p /\ observerLog[p][i].info.status = "failed" }
\* the merged options of call p passed validation
PassedValidation(p) == taskId[p] # 0 /\ validateOptions(mergedOptions[p]).valid

\* C28: with an observer supplied, a failed event is delivered exactly when
\* convert returns a failure result after the options passed validation (the
\* HTML generator's failure or a thrown error), and it is delivered before
\* convert returns; a validation failure delivers no event at all, and a
\* success delivers no failed event.
C28_FailedEventIffLateFailure ==
  \A p \in Procs :
    (taskId[p] # 0 /\ HasObserver(p)) =>
      /\ FailedEvents(p) # {} <=> (Failed(p) /\ PassedValidation(p))
      /\ Cardinality(FailedEvents(p)) <= 1
      /\ (Failed(p) /\ ~PassedValidation(p)) => observerLog[p] = << >>
      /\ Succeeded(p) => FailedEvents(p) = {}

\* the HTML generator reported a failure: failed is the second and last
\* event, delivered when convert has returned the failure result
C28_Witness ==
  \E p \in Procs :
    /\ HasObserver(p)
    /\ Failed(p)
    /\ HtmlUnusable(p)
    /\ Len(observerLog[p]) = 2
    /\ FailedEvents(p) = {2}

\* ------------------------------------------------------------------ C29
\* the events of a call up to the launch of its browser
StreamAtLaunch == << <<"converting-html", 0>>, <<"rendering", 30>>, <<"rendering", 40>> >>
\* the events of call p, none without an observer
Delivered(p) == IF HasObserver(p) THEN Stream(p) ELSE << >>
Quiet(p) == IF HasObserver(p) THEN StreamAtLaunch ELSE << >>
\* close rejected and convert returned that failure
CloseRejected(p) == Failed(p) /\ closes[p] = 1 /\ ErrMsg(p) = <<"close failed">>

====
